---- MODULE Spec2Model ----
(***************************************************************************)
(* The browser front end of the compiler playground: the compile session   *)
(* (compile(), its two awaits, its try/catch/finally), the error marker    *)
(* list, the regex that locates an error in the source and the bytecode    *)
(* listing with its highlighting.                                          *)
(*                                                                         *)
(* Spec is the whole session; LocateSpec applies showErrorWithHighlighting *)
(* to error texts; TokenSpec has one attempt list one instruction line.    *)
(*                                                                         *)
(* Two pages ship the front end: the CodeMirror page (the script with      *)
(* errorMarkers, here page = "editor") and the plain textarea page         *)
(* (script.js, here page = "textarea").                                    *)
(*                                                                         *)
(* A JavaScript string is a sequence of atoms.  Text that a regex or       *)
(* trim() looks into is spelled one character per atom; a literal that the *)
(* program only copies to a surface is one atom.                           *)
(***************************************************************************)
EXTENDS Integers, Sequences, FiniteSets, TLC

\* Number of compile attempts that get past the empty-input check.
MaxAttempts == 2

\* Number of chunks an error text of LocateSpec is put together from.
MaxChunks == 3

\* The most pieces an instruction line of the tokenizer's runs is made of.
MaxPieces == 3

\* The most clicks on the Examples button in one run.
MaxExampleLoads == 6

VARIABLES
    page,               \* which of the two pages is loaded
    editorValue,        \* editor.getValue() / sourceCode.value
    errorMarkers,       \* let errorMarkers = []
    compileBtnDisabled, \* compileBtn.disabled
    spinnerDisplay,     \* spinner.style.display
    errorPanelDisplay,  \* errorPanel.style.display
    errorContent,       \* errorContent.textContent
    resultOutput,       \* resultOutput.textContent / innerHTML
    bytecodeOutput,     \* bytecodeOutput.textContent / innerHTML
    pc,                 \* where each call of compile() that reached fetch stands
    requests,           \* the requests handed to fetch, in order
    instructionLine,    \* the instruction line the tokenizer is tried on
    currentExampleIndex, \* let currentExampleIndex = 0
    exampleLog          \* the examples loaded so far (their indices), in order

vars == <<page, editorValue, errorMarkers, compileBtnDisabled, spinnerDisplay,
          errorPanelDisplay, errorContent, resultOutput, bytecodeOutput,
          pc, requests, instructionLine, currentExampleIndex, exampleLog>>

\* What the Examples button works on.
exampleState == <<currentExampleIndex, exampleLog>>

Attempts == 1..MaxAttempts

-----------------------------------------------------------------------------
(* JavaScript values *)

Undefined == [t |-> "undefined"]

Null == [t |-> "null"]

Num(n) == [t |-> "number", v |-> n]

Str(s) == [t |-> "string", v |-> s]

Arr(a) == [t |-> "array", v |-> a]

Obj(e, r, b) == [t |-> "object", error |-> e, result |-> r, bytecode |-> b]

\* ToBoolean: what `if (x)`, `!x` and `x || y` test.
Truthy(x) ==
    CASE x.t = "undefined" -> FALSE
      [] x.t = "null"      -> FALSE
      [] x.t = "number"    -> x.v # 0
      [] x.t = "string"    -> x.v # <<>>
      [] OTHER             -> TRUE

Digit(d) == <<"0", "1", "2", "3", "4", "5", "6", "7", "8", "9">>[d + 1]

RECURSIVE NatToString(_)
\* Number.prototype.toString of a non-negative integer.
NatToString(n) ==
    IF n < 10 THEN <<Digit(n)>> ELSE NatToString(n \div 10) \o <<Digit(n % 10)>>

\* The abstract operation ToString, as a template literal applies it to a number or a string.
JsToString(x) ==
    CASE x.t = "number" -> NatToString(x.v)
      [] x.t = "string" -> x.v
      [] OTHER          -> <<x.t>>

IsWhiteSpace(c) == c \in {" ", "\t", "\n", "\r"}

RECURSIVE TrimStart(_)
TrimStart(s) ==
    IF s # <<>> /\ IsWhiteSpace(Head(s)) THEN TrimStart(Tail(s)) ELSE s

RECURSIVE TrimEnd(_)
TrimEnd(s) ==
    IF s # <<>> /\ IsWhiteSpace(s[Len(s)])
    THEN TrimEnd(SubSeq(s, 1, Len(s) - 1))
    ELSE s

\* A compile() that reads the editor without .trim().
TrimNone(s) == s

\* String.prototype.trim
Trim(s) == TrimEnd(TrimStart(s))

-----------------------------------------------------------------------------
(* The error location: errorMessage.match(/at (\d+):(\d+)/) and parseInt *)

IsDigit(c) == c \in {"0", "1", "2", "3", "4", "5", "6", "7", "8", "9"}

DigitValue(c) == CHOOSE d \in 0..9 : Digit(d) = c

RECURSIVE DigitsEnd(_, _)
\* \d+ is greedy: the first position at or after i that holds no digit.
DigitsEnd(s, i) ==
    IF i <= Len(s) /\ IsDigit(s[i]) THEN DigitsEnd(s, i + 1) ELSE i

\* The regex tried at position i: "at ", digits, ":", digits.  A shorter run of
\* the first digits is followed by a digit, never by ":", so backtracking
\* finds nothing the greedy run does not.
MatchAtLineCol(s, i) ==
    LET j == DigitsEnd(s, i + 3)
        k == DigitsEnd(s, j + 1)
    IN  IF /\ i + 2 <= Len(s)
           /\ s[i] = "a" /\ s[i + 1] = "t" /\ s[i + 2] = " "
           /\ j > i + 3
           /\ j <= Len(s) /\ s[j] = ":"
           /\ k > j + 1
        THEN [matched |-> TRUE,
              g1 |-> SubSeq(s, i + 3, j - 1),
              g2 |-> SubSeq(s, j + 1, k - 1)]
        ELSE [matched |-> FALSE]

RECURSIVE SearchAtLineCol(_, _)
SearchAtLineCol(s, i) ==
    IF i > Len(s) THEN [matched |-> FALSE]
    ELSE IF MatchAtLineCol(s, i).matched THEN MatchAtLineCol(s, i)
    ELSE SearchAtLineCol(s, i + 1)

\* String.prototype.match with a non-global regex: the leftmost match.
lineMatch(errorMessage) == SearchAtLineCol(errorMessage, 1)

RECURSIVE DecimalValue(_)
DecimalValue(ds) ==
    IF ds = <<>> THEN 0
    ELSE 10 * DecimalValue(SubSeq(ds, 1, Len(ds) - 1)) + DigitValue(ds[Len(ds)])

\* parseInt(s, 10) of a string without sign or leading blanks: the value of
\* the leading digits, NaN when there is none.
ParseInt(s) ==
    LET e == DigitsEnd(s, 1)
    IN  IF e = 1 THEN [nan |-> TRUE, v |-> 0]
        ELSE [nan |-> FALSE, v |-> DecimalValue(SubSeq(s, 1, e - 1))]

\* The line taken as reported, without the step to CodeMirror's 0-based lines.
ErrorLineOneBased(m) == ParseInt(m.g1).v

\* const line = parseInt(lineMatch[1], 10) - 1
ErrorLine(m) == ParseInt(m.g1).v - 1

\* const col = parseInt(lineMatch[2], 10) - 1   (NaN - 1 is NaN)
ErrorCol(m) == [nan |-> ParseInt(m.g2).nan, v |-> ParseInt(m.g2).v - 1]

\* What the diagnostic parser hands on: absent, or the 0-based position.
Locate(errorMessage) ==
    LET m == lineMatch(errorMessage)
    IN  IF ~m.matched THEN [found |-> FALSE]
        ELSE [found |-> TRUE, line |-> ErrorLine(m), col |-> ErrorCol(m)]

\* The handle editor.addLineClass returns.
LineHandle(line, by) == [kind |-> "lineClass", line |-> line, by |-> by]

\* The handle editor.markText returns.
TextMarker(line, col, by) ==
    [kind |-> "textMarker", from |-> [line |-> line, ch |-> col],
     to |-> [line |-> line, ch |-> col + 1], by |-> by]

\* The handles showErrorWithHighlighting pushes on errorMarkers; `by` is the
\* attempt whose response is shown.
NewMarkers(errorMessage, by) ==
    LET loc == Locate(errorMessage)
    IN  IF ~loc.found THEN <<>>
        ELSE <<LineHandle(loc.line, by)>>
             \o (IF ~loc.col.nan THEN <<TextMarker(loc.line, loc.col.v, by)>>
                 ELSE <<>>)

-----------------------------------------------------------------------------
(* The bytecode listing: formatBytecode and highlightBytecode *)

\* s holds the characters of w from position i on.
StartsWith(s, i, w) ==
    /\ i + Len(w) - 1 <= Len(s)
    /\ \A k \in 1..Len(w) : s[i + k - 1] = w[k]

RECURSIVE IndexOfFrom(_, _, _)
\* The first position at or after i that holds c; Len(s) + 1 when none does.
IndexOfFrom(s, i, c) ==
    IF i > Len(s) \/ s[i] = c THEN i ELSE IndexOfFrom(s, i + 1, c)

Quote == "\""

\* <span class="cls">, with the quotes as atoms of their own: a later regex of
\* the chain reads them.
SpanOpen(cls) == <<"<span class=", Quote, cls, Quote, ">">>

SpanClose == <<"</span>">>

PushWord == <<"P", "u", "s", "h">>

\* /Push\(([^)]+)\)/ tried at position i: [^)]+ runs to the next ")".
MatchPush(s, i) ==
    LET a == i + Len(PushWord) + 1
        e == IndexOfFrom(s, a, ")")
    IN  IF StartsWith(s, i, PushWord \o <<"(">>) /\ e > a /\ e <= Len(s)
        THEN [matched |-> TRUE, g1 |-> SubSeq(s, a, e - 1), next |-> e + 1]
        ELSE [matched |-> FALSE]

RECURSIVE ReplacePushWhole(_, _)
\* The replace with the span put around the whole of Push(...).
ReplacePushWhole(s, i) ==
    IF i > Len(s) THEN <<>>
    ELSE LET m == MatchPush(s, i)
         IN  IF m.matched
             THEN SpanOpen("bytecode-value") \o PushWord \o <<"(">> \o m.g1
                  \o <<")">> \o SpanClose \o ReplacePushWhole(s, m.next)
             ELSE <<s[i]>> \o ReplacePushWhole(s, i + 1)

RECURSIVE ReplacePush(_, _)
\* .replace(/Push\(([^)]+)\)/g, 'Push(<span class="bytecode-value">$1</span>)')
ReplacePush(s, i) ==
    IF i > Len(s) THEN <<>>
    ELSE LET m == MatchPush(s, i)
         IN  IF m.matched
             THEN PushWord \o <<"(">> \o SpanOpen("bytecode-value") \o m.g1
                  \o SpanClose \o <<")">> \o ReplacePush(s, m.next)
             ELSE <<s[i]>> \o ReplacePush(s, i + 1)

\* The alternatives of (Add|Subtract|Multiply|Divide|Negate), in order.
OperatorWords ==
    << <<"A", "d", "d">>,
       <<"S", "u", "b", "t", "r", "a", "c", "t">>,
       <<"M", "u", "l", "t", "i", "p", "l", "y">>,
       <<"D", "i", "v", "i", "d", "e">>,
       <<"N", "e", "g", "a", "t", "e">> >>

\* /(Add|Subtract|Multiply|Divide|Negate)/ tried at position i.
MatchOp(s, i) ==
    LET hits == {n \in 1..Len(OperatorWords) : StartsWith(s, i, OperatorWords[n])}
    IN  IF hits = {} THEN [matched |-> FALSE]
        ELSE LET n == CHOOSE h \in hits : \A o \in hits : h <= o
             IN  [matched |-> TRUE, g1 |-> OperatorWords[n],
                  next |-> i + Len(OperatorWords[n])]

RECURSIVE ReplaceOp(_, _)
\* .replace(/(Add|Subtract|Multiply|Divide|Negate)/g, '<span class="bytecode-op">$1</span>')
ReplaceOp(s, i) ==
    IF i > Len(s) THEN <<>>
    ELSE LET m == MatchOp(s, i)
         IN  IF m.matched
             THEN SpanOpen("bytecode-op") \o m.g1 \o SpanClose
                  \o ReplaceOp(s, m.next)
             ELSE <<s[i]>> \o ReplaceOp(s, i + 1)

JumpWord == <<"J", "u", "m", "p">>

JumpIfFalseWord == JumpWord \o <<"I", "f", "F", "a", "l", "s", "e">>

\* \((\d+)\) after the keyword w found at position i.
MatchJumpArg(s, i, w) ==
    LET a == i + Len(w) + 1
        e == DigitsEnd(s, a)
    IN  IF StartsWith(s, i, w \o <<"(">>) /\ e > a /\ e <= Len(s) /\ s[e] = ")"
        THEN [matched |-> TRUE, g1 |-> w, g2 |-> SubSeq(s, a, e - 1),
              next |-> e + 1]
        ELSE [matched |-> FALSE]

\* /(Jump|JumpIfFalse)\((\d+)\)/ tried at position i: Jump first, and when the
\* rest fails after it, JumpIfFalse.
MatchJump(s, i) ==
    IF MatchJumpArg(s, i, JumpWord).matched THEN MatchJumpArg(s, i, JumpWord)
    ELSE MatchJumpArg(s, i, JumpIfFalseWord)

RECURSIVE ReplaceJump(_, _)
\* .replace(/(Jump|JumpIfFalse)\((\d+)\)/g,
\*          '<span class="bytecode-flow">$1</span>(<span class="bytecode-number">$2</span>)')
ReplaceJump(s, i) ==
    IF i > Len(s) THEN <<>>
    ELSE LET m == MatchJump(s, i)
         IN  IF m.matched
             THEN SpanOpen("bytecode-flow") \o m.g1 \o SpanClose \o <<"(">>
                  \o SpanOpen("bytecode-number") \o m.g2 \o SpanClose \o <<")">>
                  \o ReplaceJump(s, m.next)
             ELSE <<s[i]>> \o ReplaceJump(s, i + 1)

LoadWord == <<"L", "o", "a", "d">>

StoreWord == <<"S", "t", "o", "r", "e">>

VariableWord == <<"V", "a", "r", "i", "a", "b", "l", "e">>

\* Variable\("([^"]+)"\) after the keyword w found at position i: [^"]+ runs
\* to the next quote.
MatchVariableArg(s, i, w) ==
    LET a == i + Len(w) + Len(VariableWord) + 2
        e == IndexOfFrom(s, a, Quote)
    IN  IF /\ StartsWith(s, i, w \o VariableWord \o <<"(", Quote>>)
           /\ e > a /\ e + 1 <= Len(s) /\ s[e + 1] = ")"
        THEN [matched |-> TRUE, g1 |-> w, g2 |-> SubSeq(s, a, e - 1),
              next |-> e + 2]
        ELSE [matched |-> FALSE]

\* /(Load|Store)Variable\("([^"]+)"\)/ tried at position i.
MatchVariable(s, i) ==
    IF MatchVariableArg(s, i, LoadWord).matched
    THEN MatchVariableArg(s, i, LoadWord)
    ELSE MatchVariableArg(s, i, StoreWord)

RECURSIVE ReplaceVariable(_, _)
\* .replace(/(Load|Store)Variable\("([^"]+)"\)/g,
\*          '<span class="bytecode-var">$1Variable</span>("$2")')
ReplaceVariable(s, i) ==
    IF i > Len(s) THEN <<>>
    ELSE LET m == MatchVariable(s, i)
         IN  IF m.matched
             THEN SpanOpen("bytecode-var") \o m.g1 \o VariableWord \o SpanClose
                  \o <<"(", Quote>> \o m.g2 \o <<Quote, ")">>
                  \o ReplaceVariable(s, m.next)
             ELSE <<s[i]>> \o ReplaceVariable(s, i + 1)

\* The four replaces, each over the output of the one before.
highlightBytecode(instruction) ==
    ReplaceVariable(ReplaceJump(ReplaceOp(ReplacePush(instruction, 1), 1), 1), 1)

\* The index counted from 1.
PadIndexOneBased(index) ==
    IF index + 1 < 10 THEN <<"0">> \o NatToString(index + 1)
    ELSE NatToString(index + 1)

\* index.toString().padStart(2, '0')
PadIndex(index) ==
    IF index < 10 THEN <<"0">> \o NatToString(index) ELSE NatToString(index)

\* The template of one line of the listing.
BytecodeLine(line, index) ==
    <<"<div class=", Quote, "bytecode-line", Quote, ">", "\n        ">>
    \o SpanOpen("bytecode-index") \o PadIndex(index) \o SpanClose
    \o <<"\n        ">> \o highlightBytecode(line) \o <<"\n      ", "</div>">>

RECURSIVE JoinLines(_, _)
\* bytecode.map((line, index) => ...).join(""), from 0-based index on.
JoinLines(lines, index) ==
    IF index >= Len(lines) THEN <<>>
    ELSE BytecodeLine(lines[index + 1], index) \o JoinLines(lines, index + 1)

NoBytecodeHtml == <<"<em>No bytecode generated</em>">>

\* formatBytecode(bytecode): the HTML, or the TypeError of calling .map on a
\* value that has none.
formatBytecode(bytecode) ==
    IF ~Truthy(bytecode) \/ (bytecode.t = "array" /\ Len(bytecode.v) = 0)
    THEN [threw |-> FALSE, text |-> NoBytecodeHtml]
    ELSE IF bytecode.t = "array"
    THEN [threw |-> FALSE, text |-> JoinLines(bytecode.v, 0)]
    ELSE [threw |-> TRUE, message |-> <<"bytecode.map is not a function">>]

RECURSIVE JoinWith(_, _)
\* Array.prototype.join(sep) of an array of strings.
JoinWith(lines, sep) ==
    IF lines = <<>> THEN <<>>
    ELSE IF Len(lines) = 1 THEN lines[1]
    ELSE lines[1] \o <<sep>> \o JoinWith(Tail(lines), sep)

\* data.bytecode?.join("\n") || "No bytecode generated"   (script.js)
joinBytecode(bytecode) ==
    IF bytecode.t \in {"undefined", "null"}
    THEN [threw |-> FALSE, text |-> <<"No bytecode generated">>]
    ELSE IF bytecode.t = "array"
    THEN [threw |-> FALSE,
          text |-> IF JoinWith(bytecode.v, "\n") = <<>>
                   THEN <<"No bytecode generated">>
                   ELSE JoinWith(bytecode.v, "\n")]
    ELSE [threw |-> TRUE, message |-> <<"data.bytecode?.join is not a function">>]

-----------------------------------------------------------------------------
(* The inputs: what the user types and what the server answers *)

\* The program the page starts with, and the text a user may type: padded
\* with white space that trim() removes, with white space kept inside.
PaddedSource == <<" ", "y", " ", "z", "\n">>

BlankSource == <<" ", "\n">>

Sources == {<<>>, BlankSource, PaddedSource}

\* "E at 3:7"
ErrorAt37 == <<"E", " ", "a", "t", " ", "3", ":", "7">>

\* "x at 2:5"
ErrorAt25 == <<"x", " ", "a", "t", " ", "2", ":", "5">>

\* "EOF": an error text without a location
ErrorNoLocation == <<"E", "O", "F">>

\* "Push(15)"
Push15 == <<"P", "u", "s", "h", "(", "1", "5", ")">>

\* "Push(0)"
Push0 == <<"P", "u", "s", "h", "(", "0", ")">>

AddLine == <<"A", "d", "d">>

\* response.json() of the body that arrives: the decoded value, or a body
\* that is no JSON.
Decoded(data) == [decodable |-> TRUE, data |-> data]

Undecodable == [decodable |-> FALSE]

Bodies ==
    { Undecodable,
      Decoded(Null),
      Decoded(Obj(Str(ErrorAt37), Undefined, Undefined)),
      Decoded(Obj(Str(ErrorNoLocation), Undefined, Undefined)),
      Decoded(Obj(Str(ErrorAt25), Num(40), Arr(<<Push15>>))),
      Decoded(Obj(Num(404), Undefined, Undefined)),
      Decoded(Obj(Undefined, Num(40), Arr(<<Push15, AddLine>>))),
      Decoded(Obj(Undefined, Num(0), Arr(<<Push0>>))),
      Decoded(Obj(Str(<<>>), Str(<<"h", "i">>), Undefined)),
      Decoded(Obj(Undefined, Undefined, Arr(<<>>))),
      Decoded(Obj(Undefined, Num(40), Undefined)),
      Decoded(Obj(Undefined, Num(40), Arr(<< <<>> >>))),
      Decoded(Obj(Undefined, Num(7), Str(<<"o", "o", "p", "s">>))) }

-----------------------------------------------------------------------------
(* The texts the program writes to its surfaces (their icons left out) *)

EmptyInputMessage == <<"Please enter some code to compile.">>

CompilingResult == <<"Compiling your code...">>

CompilingBytecode == <<"Generating bytecode...">>

CompilationFailedResult == <<"Compilation failed. Check the error below.">>

CompilationFailedBytecode == <<"No bytecode generated due to compilation error.">>

NoOutput == <<"No output">>

\* The message of the TypeError fetch rejects with.
FetchErrorMessage == <<"Failed to fetch">>

\* The message of the SyntaxError response.json() rejects with.
JsonErrorMessage == <<"Unexpected token < in JSON at position 0">>

\* The message of the TypeError that reading data.error of null throws.
NullDataMessage == <<"Cannot read properties of null (reading 'error')">>

\* The message of the TypeError that errorMessage.match throws when the
\* error field is no string.
NoMatchMethodMessage == <<"errorMessage.match is not a function">>

-----------------------------------------------------------------------------
(* The operations of a compile session *)

\* setLoadingState(isLoading): the spinner and compileBtn.disabled.
setLoadingState(isLoading) ==
    [spinner  |-> IF ~isLoading THEN "none"
                  ELSE IF page = "editor" THEN "block" ELSE "inline-block",
     disabled |-> isLoading]

\* A clearErrorMarkers that clears and drops one handle per call.
clearErrorMarkersOneByOne(markers) ==
    IF markers = <<>> THEN <<>> ELSE Tail(markers)

\* A clearErrorMarkers that clears the handles in the editor and keeps the list.
clearErrorMarkersKeepList(markers) == markers

\* clearErrorMarkers(): every handle is cleared in the editor, then
\* errorMarkers = [].
clearErrorMarkers(markers) == <<>>

\* A request built from the editor's text as it is.
CompileRequestRaw(code) ==
    [url    |-> IF page = "editor" THEN "/compile"
                ELSE "http://127.0.0.1:8080/compile",
     method |-> "POST",
     body   |-> [source |-> editorValue, language |-> "custom"]]

\* The argument of fetch: the URL, the method and the body, held as the
\* object JSON.stringify is given (the server reads back the same fields).
CompileRequest(code) ==
    [url    |-> IF page = "editor" THEN "/compile"
                ELSE "http://127.0.0.1:8080/compile",
     method |-> "POST",
     body   |-> [source |-> code, language |-> "custom"]]

\* `${data.result || "No output"}`
ResultValue(data) ==
    IF Truthy(data.result) THEN JsToString(data.result) ELSE NoOutput

\* The template the success branch fills with the value it shows.
ResultTemplate(shown) ==
    IF page = "editor"
    THEN <<"<span class=", Quote, "success-icon", Quote, ">", "</span>",
           " Result: ">>
         \o SpanOpen("result-value") \o shown \o SpanClose
    ELSE <<"Result: ">> \o shown

\* What the success branch writes to resultOutput.
ResultText(data) == ResultTemplate(ResultValue(data))

\* What the success branch writes to bytecodeOutput, or what it throws.
BytecodeText(data) ==
    IF page = "editor" THEN formatBytecode(data.bytecode)
    ELSE joinBytecode(data.bytecode)

\* A dispatch that takes a response with a result for a success.
IsFailureWithoutResult(data) == Truthy(data.error) /\ ~Truthy(data.result)

\* if (data.error)
IsFailure(data) == Truthy(data.error)

\* A catch block that sets the placeholders and shows no error.
CaughtQuietly(message) ==
    [panel    |-> errorPanelDisplay,
     content  |-> errorContent,
     result   |-> IF page = "editor" THEN <<"Failed to connect to the server.">>
                  ELSE <<"Failed to connect to compiler server.">>,
     bytecode |-> IF page = "editor" THEN <<"Connection error.">>
                  ELSE <<"Server connection unavailable.">>,
     push     |-> <<>>]

\* The catch block: showError and the two connection placeholders.
Caught(message) ==
    [panel    |-> "block",
     content  |-> IF page = "editor" THEN <<"Network error: ">> \o message
                  ELSE <<"Connection error: ">> \o message
                       \o <<"\n\nPlease ensure the compiler server is running on http://127.0.0.1:8080">>,
     result   |-> IF page = "editor" THEN <<"Failed to connect to the server.">>
                  ELSE <<"Failed to connect to compiler server.">>,
     bytecode |-> IF page = "editor" THEN <<"Connection error.">>
                  ELSE <<"Server connection unavailable.">>,
     push     |-> <<>>]

Threw(message) == [threw |-> TRUE, message |-> message]

\* The failure branch: showErrorWithHighlighting (showError in script.js)
\* and the two placeholders.  `by` is the attempt that shows the error.
FailureBranch(data, by) ==
    IF page = "editor" /\ data.error.t # "string"
    THEN Threw(NoMatchMethodMessage)
    ELSE [threw    |-> FALSE,
          panel    |-> "block",
          content  |-> JsToString(data.error),
          result   |-> CompilationFailedResult,
          bytecode |-> CompilationFailedBytecode,
          push     |-> IF page = "editor" THEN NewMarkers(data.error.v, by)
                       ELSE <<>>]

\* The success branch: the result and the bytecode listing; the error panel
\* is left as it is.
SuccessBranch(data) ==
    LET listing == BytecodeText(data)
    IN  IF listing.threw THEN Threw(listing.message)
        ELSE [threw    |-> FALSE,
              panel    |-> errorPanelDisplay,
              content  |-> errorContent,
              result   |-> ResultText(data),
              bytecode |-> listing.text,
              push     |-> <<>>]

\* The statements of the try block after `await response.json()`.
Dispatch(data, by) ==
    IF data.t # "object" THEN Threw(NullDataMessage)
    ELSE IF IsFailure(data) THEN FailureBranch(data, by)
    ELSE SuccessBranch(data)

\* try { ... } catch (error) { ... }: what the surfaces hold when the try
\* block has run over the decoded body, or has thrown.
TryCatch(body, by) ==
    IF ~body.decodable THEN Caught(JsonErrorMessage)
    ELSE LET done == Dispatch(body.data, by)
         IN  IF done.threw THEN Caught(done.message) ELSE done

\* A compile() whose cleanup does not run: the button and the spinner stay.
FinallyLeftOut == [spinner |-> spinnerDisplay, disabled |-> compileBtnDisabled]

\* finally { setLoadingState(false) }
Finally == setLoadingState(FALSE)

\* The attempt the next call of compile() that reaches fetch becomes.
NextAttempt == Cardinality({i \in Attempts : pc[i] # "unstarted"}) + 1

\* An attempt leaves compile(): the surfaces as `out` says, then finally.
Return(i, out) ==
    /\ errorPanelDisplay' = out.panel
    /\ errorContent' = out.content
    /\ resultOutput' = out.result
    /\ bytecodeOutput' = out.bytecode
    /\ errorMarkers' = errorMarkers \o out.push
    /\ spinnerDisplay' = Finally.spinner
    /\ compileBtnDisabled' = Finally.disabled
    /\ pc' = [pc EXCEPT ![i] = "returned"]
    /\ UNCHANGED <<page, editorValue, requests, instructionLine,
                   exampleState>>

\* compile() with the markers cleared before the source is looked at.
compileClearingFirst ==
    LET code == Trim(editorValue)
    IN  IF code = <<>>
        THEN /\ errorMarkers' = clearErrorMarkers(errorMarkers)
             /\ errorPanelDisplay' = "block"
             /\ errorContent' = EmptyInputMessage
             /\ UNCHANGED <<page, editorValue, compileBtnDisabled,
                            spinnerDisplay, resultOutput, bytecodeOutput, pc,
                            requests, instructionLine,
                   exampleState>>
        ELSE /\ NextAttempt <= MaxAttempts
             /\ errorMarkers' = clearErrorMarkers(errorMarkers)
             /\ spinnerDisplay' = setLoadingState(TRUE).spinner
             /\ compileBtnDisabled' = setLoadingState(TRUE).disabled
             /\ errorPanelDisplay' = "none"
             /\ resultOutput' = CompilingResult
             /\ bytecodeOutput' = CompilingBytecode
             /\ requests' = Append(requests, CompileRequest(code))
             /\ pc' = [pc EXCEPT ![NextAttempt] = "awaitFetch"]
             /\ UNCHANGED <<page, editorValue, errorContent, instructionLine,
                   exampleState>>

\* compile(), from the call to the first await.
compile ==
    LET code == Trim(editorValue)
    IN  IF code = <<>>
        THEN /\ errorPanelDisplay' = "block"
             /\ errorContent' = EmptyInputMessage
             /\ UNCHANGED <<page, editorValue, errorMarkers, compileBtnDisabled,
                            spinnerDisplay, resultOutput, bytecodeOutput, pc,
                            requests, instructionLine,
                   exampleState>>
        ELSE /\ NextAttempt <= MaxAttempts
             /\ errorMarkers' = IF page = "editor"
                                THEN clearErrorMarkers(errorMarkers)
                                ELSE errorMarkers
             /\ spinnerDisplay' = setLoadingState(TRUE).spinner
             /\ compileBtnDisabled' = setLoadingState(TRUE).disabled
             /\ errorPanelDisplay' = "none"
             /\ resultOutput' = CompilingResult
             /\ bytecodeOutput' = CompilingBytecode
             /\ requests' = Append(requests, CompileRequest(code))
             /\ pc' = [pc EXCEPT ![NextAttempt] = "awaitFetch"]
             /\ UNCHANGED <<page, editorValue, errorContent, instructionLine,
                   exampleState>>

\* compileBtn.addEventListener("click", compile): a disabled button fires
\* no click.
ClickCompile == ~compileBtnDisabled /\ compile

\* document.addEventListener("keydown", ...): Ctrl+Enter or Cmd+Enter.
KeydownCompile == compile

\* extraKeys: "Ctrl-Enter": compile, "Cmd-Enter": compile.  The key event
\* also reaches the document's listener, a KeydownCompile step of its own.
EditorKeyCompile == page = "editor" /\ compile

\* The user types: editor.setValue / input into the textarea.
EditSource(s) ==
    /\ s # editorValue
    /\ editorValue' = s
    /\ UNCHANGED <<page, errorMarkers, compileBtnDisabled, spinnerDisplay,
                   errorPanelDisplay, errorContent, resultOutput,
                   bytecodeOutput, pc, requests, instructionLine,
                   exampleState>>

\* await fetch(...) resolves: the response's headers are there.
FetchResolve(i) ==
    /\ pc[i] = "awaitFetch"
    /\ pc' = [pc EXCEPT ![i] = "awaitJson"]
    /\ UNCHANGED <<page, editorValue, errorMarkers, compileBtnDisabled,
                   spinnerDisplay, errorPanelDisplay, errorContent,
                   resultOutput, bytecodeOutput, requests, instructionLine,
                   exampleState>>

\* await fetch(...) rejects: catch, finally.
FetchReject(i) ==
    /\ pc[i] = "awaitFetch"
    /\ Return(i, Caught(FetchErrorMessage))

\* await response.json() settles on the body that arrived: the rest of the
\* try block or catch, then finally.
JsonSettle(i, body) ==
    /\ pc[i] = "awaitJson"
    /\ Return(i, TryCatch(body, i))

\* showErrorWithHighlighting(errorMessage), called on its own: showError,
\* then the markers of the location the message holds.
showErrorWithHighlighting(errorMessage) ==
    /\ errorPanelDisplay' = "block"
    /\ errorContent' = errorMessage
    /\ errorMarkers' = errorMarkers \o NewMarkers(errorMessage, 1)
    /\ UNCHANGED <<page, editorValue, compileBtnDisabled, spinnerDisplay,
                   resultOutput, bytecodeOutput, pc, requests, instructionLine,
                   exampleState>>

\* The page as the DOMContentLoaded handler leaves it.
PageLoaded ==
    /\ page \in {"editor", "textarea"}
    /\ editorValue = PaddedSource
    /\ errorMarkers = <<>>
    /\ compileBtnDisabled = FALSE
    /\ spinnerDisplay = "none"
    /\ errorPanelDisplay = "none"
    /\ errorContent = <<>>
    /\ resultOutput = <<"Ready to compile...">>
    /\ bytecodeOutput = <<"Compile your code to see bytecode instructions...">>
    /\ pc = [i \in Attempts |-> "unstarted"]
    /\ requests = <<>>

Init ==
    /\ PageLoaded
    /\ instructionLine = <<>>
    /\ currentExampleIndex = 0
    /\ exampleLog = <<>>

Next ==
    \/ ClickCompile
    \/ KeydownCompile
    \/ EditorKeyCompile
    \/ \E s \in Sources : EditSource(s)
    \/ \E i \in Attempts : FetchResolve(i)
    \/ \E i \in Attempts : FetchReject(i)
    \/ \E i \in Attempts : \E body \in Bodies : JsonSettle(i, body)

Spec == Init /\ [][Next]_vars

-----------------------------------------------------------------------------
(* The diagnostic parser on its own: showErrorWithHighlighting applied to   *)
(* one error text on the freshly loaded editor page.                        *)

\* "Parse error at 3:7"
ParseErrorAt37 ==
    <<"P", "a", "r", "s", "e", " ", "e", "r", "r", "o", "r", " ",
      "a", "t", " ", "3", ":", "7">>

\* "Unexpected end of input"
UnexpectedEndOfInput ==
    <<"U", "n", "e", "x", "p", "e", "c", "t", "e", "d", " ", "e", "n", "d",
      " ", "o", "f", " ", "i", "n", "p", "u", "t">>

\* The pieces error texts are put together from.
Chunks ==
    { <<"a", "t", " ">>, <<"a", "t", " ", "3">>, <<":", "7">>, <<"1", "2">>,
      <<":">>, <<"0">>, <<"x">>, <<" ">>,
      <<"a", "t", " ", "1", ":", "5">> }

RECURSIVE TextsOf(_)
\* The texts of at most n chunks.
TextsOf(n) ==
    IF n = 0 THEN {<<>>}
    ELSE TextsOf(n - 1) \cup {t \o c : t \in TextsOf(n - 1), c \in Chunks}

ErrorTexts == TextsOf(MaxChunks) \cup {ParseErrorAt37, UnexpectedEndOfInput}

LocateInit == Init /\ page = "editor"

LocateNext ==
    \E errorMessage \in ErrorTexts :
        /\ errorPanelDisplay = "none"
        /\ showErrorWithHighlighting(errorMessage)

LocateSpec == LocateInit /\ [][LocateNext]_vars

-----------------------------------------------------------------------------
(* The tokenizer on its own: one attempt on the editor page whose Success   *)
(* response lists the single instruction line drawn at the start.           *)

\* The pieces instruction lines are put together from.
Pieces ==
    { PushWord \o <<"(">>, <<"4", "2">>, <<")">>, AddLine,
      LoadWord \o VariableWord \o <<"(", Quote>>, <<"x">>, <<Quote, ")">>,
      JumpWord \o <<"(">>, <<" ">> }

RECURSIVE LinesOf(_)
\* The lines of at most n pieces.
LinesOf(n) ==
    IF n = 0 THEN {<<>>}
    ELSE LinesOf(n - 1) \cup {t \o c : t \in LinesOf(n - 1), c \in Pieces}

\* StoreVariable("x")
StoreX == StoreWord \o VariableWord \o <<"(", Quote, "x", Quote, ")">>

\* JumpIfFalse(12)
JumpIfFalse12 == JumpIfFalseWord \o <<"(", "1", "2", ")">>

\* Halt
HaltLine == <<"H", "a", "l", "t">>

InstructionLines ==
    LinesOf(MaxPieces)
    \cup {StoreX, JumpIfFalse12, HaltLine}
    \cup {OperatorWords[n] : n \in 1..Len(OperatorWords)}

\* The Success response that lists the one line.
ListingOf(line) == Decoded(Obj(Undefined, Num(40), Arr(<<line>>)))

TokenInit ==
    /\ PageLoaded
    /\ page = "editor"
    /\ instructionLine \in InstructionLines
    /\ currentExampleIndex = 0
    /\ exampleLog = <<>>

TokenNext ==
    \/ pc[1] = "unstarted" /\ ClickCompile
    \/ FetchResolve(1)
    \/ JsonSettle(1, ListingOf(instructionLine))

TokenSpec == TokenInit /\ [][TokenNext]_vars

-----------------------------------------------------------------------------
(* The Examples button: showNextExample (loadExample in script.js), tried   *)
(* while compile attempts go on.                                           *)

\* const examples = [...]: the four built-in programs.  Each code is one
\* atom: it starts and ends with a character that trim() leaves alone.
examples ==
    << [name |-> "Basic Arithmetic",
        code |-> <<"// Basic arithmetic operations ... sum;">>],
       [name |-> "Complex Expression",
        code |-> <<"// Complex mathematical expression ... result;">>],
       [name |-> "Float Operations",
        code |-> <<"// Working with floating-point numbers ... area;">>],
       [name |-> "Multiple Variables",
        code |-> <<"// Multiple variable calculations ... triangleArea + rectangleArea;">>] >>

\* A step that passes over every other example.
NextIndexSkipping(index) == (index + 2) % Len(examples)

\* (currentExampleIndex + 1) % examples.length
NextIndex(index) == (index + 1) % Len(examples)

\* examplesBtn's click listener.  The editor page steps the index and loads
\* the example it then points at; script.js loads the example the index
\* points at and steps the index after.
showNextExample ==
    LET shown == IF page = "editor" THEN NextIndex(currentExampleIndex)
                 ELSE currentExampleIndex
    IN  /\ Len(exampleLog) < MaxExampleLoads
        /\ currentExampleIndex' = NextIndex(currentExampleIndex)
        /\ editorValue' = examples[shown + 1].code
        /\ exampleLog' = Append(exampleLog, shown)
        /\ UNCHANGED <<page, errorMarkers, compileBtnDisabled, spinnerDisplay,
                       errorPanelDisplay, errorContent, resultOutput,
                       bytecodeOutput, pc, requests, instructionLine>>

\* The answers of the server in these runs: a Failure with a location and
\* a Success.
ExampleBodies ==
    { Decoded(Obj(Str(ErrorAt37), Undefined, Undefined)),
      Decoded(Obj(Undefined, Num(40), Arr(<<Push15>>))) }

ExampleNext ==
    \/ showNextExample
    \/ KeydownCompile
    \/ \E i \in Attempts : FetchResolve(i)
    \/ \E i \in Attempts : \E body \in ExampleBodies : JsonSettle(i, body)

ExampleSpec == Init /\ [][ExampleNext]_vars

-----------------------------------------------------------------------------
(* Vocabulary of the properties *)

\* The attempts whose request has not settled yet.
InFlight == {i \in Attempts : pc[i] \in {"awaitFetch", "awaitJson"}}

\* The text is empty or holds white space only.
IsBlank(s) == \A k \in 1..Len(s) : IsWhiteSpace(s[k])

\* The text between the first and the last character that is no white space.
Stripped(s) ==
    LET solid == {k \in 1..Len(s) : ~IsWhiteSpace(s[k])}
    IN  IF solid = {} THEN <<>>
        ELSE SubSeq(s, CHOOSE a \in solid : \A k \in solid : a <= k,
                       CHOOSE b \in solid : \A k \in solid : b >= k)

\* The decoded body is an object with a non-empty string as its error field.
IsErrorBody(body) ==
    /\ body.decodable
    /\ body.data.t = "object"
    /\ body.data.error.t = "string"
    /\ body.data.error.v # <<>>

\* The decoded body is an object without error whose bytecode can be listed.
IsSuccessBody(body) ==
    /\ body.decodable
    /\ body.data.t = "object"
    /\ body.data.error.t = "undefined"
    /\ body.data.bytecode.t \in {"array", "undefined"}

DigitOf(c) ==
    CASE c = "0" -> 0 [] c = "1" -> 1 [] c = "2" -> 2 [] c = "3" -> 3
      [] c = "4" -> 4 [] c = "5" -> 5 [] c = "6" -> 6 [] c = "7" -> 7
      [] c = "8" -> 8 [] c = "9" -> 9

\* The number the decimal digits s[a..b] spell.
Spelled(s, a, b) ==
    LET f[k \in (a - 1)..b] ==
            IF k = a - 1 THEN 0 ELSE 10 * f[k - 1] + DigitOf(s[k])
    IN  f[b]

\* At position p the text reads "at ", n digits, ":", and m digits that no
\* further digit follows.
IsLocationAt(s, p, n, m) ==
    /\ n >= 1 /\ m >= 1
    /\ p + 4 + n + m - 1 <= Len(s)
    /\ s[p] = "a" /\ s[p + 1] = "t" /\ s[p + 2] = " "
    /\ \A k \in (p + 3)..(p + 2 + n) : IsDigit(s[k])
    /\ s[p + 3 + n] = ":"
    /\ \A k \in (p + 4 + n)..(p + 3 + n + m) : IsDigit(s[k])
    /\ (p + 4 + n + m <= Len(s) => ~IsDigit(s[p + 4 + n + m]))

\* The places <<p, n, m>> where the text holds a location "at L:C".
Locations(s) ==
    LET starts == {p \in 1..Len(s) :
                      p + 2 <= Len(s) /\ s[p] = "a" /\ s[p + 1] = "t"
                                      /\ s[p + 2] = " "}
    IN  {o \in starts \X (1..Len(s)) \X (1..Len(s)) :
            IsLocationAt(s, o[1], o[2], o[3])}

\* The leftmost one.
FirstLocation(s) ==
    CHOOSE o \in Locations(s) : \A q \in Locations(s) : o[1] <= q[1]

\* L and C of the leftmost location.
StatedLine(s) ==
    LET o == FirstLocation(s) IN Spelled(s, o[1] + 3, o[1] + 2 + o[2])

StatedColumn(s) ==
    LET o == FirstLocation(s)
    IN  Spelled(s, o[1] + 4 + o[2], o[1] + 3 + o[2] + o[3])

-----------------------------------------------------------------------------
(* Properties of the compile session *)

\* C1: at most one compile request is in flight at any time: a call of
\* compile made while an earlier attempt still awaits its response issues no
\* second request.
C1_AtMostOneInFlight == Cardinality(InFlight) <= 1

\* C2: whenever an attempt leaves compile() (after a Success or a Failure
\* response, a rejected fetch, an undecodable body or an exception thrown
\* while rendering), the step that ends it leaves the compile button enabled
\* and the spinner hidden.
C2_TriggerRestoredOnReturn ==
    [][\A i \in Attempts :
          (pc[i] # "returned" /\ pc'[i] = "returned")
              => (~compileBtnDisabled' /\ spinnerDisplay' = "none")]_vars

\* C2 witness: an attempt has returned through the catch block after the
\* rendering threw (the decoded body was null), and the button is enabled.
C2_Witness ==
    /\ \E i \in Attempts : pc[i] = "returned"
    /\ errorPanelDisplay = "block"
    /\ errorContent \in {<<"Network error: ">> \o NullDataMessage,
                         <<"Connection error: ">> \o NullDataMessage
                         \o <<"\n\nPlease ensure the compiler server is running on http://127.0.0.1:8080">>}
    /\ ~compileBtnDisabled

\* C3: a call of compile on a source that is empty or white space only hands
\* no request to fetch and shows the empty-input error in the error panel.
C3_BlankSourceNoRequest ==
    [][(compile /\ IsBlank(editorValue))
          => /\ requests' = requests
             /\ errorPanelDisplay' = "block"
             /\ errorContent' = <<"Please enter some code to compile.">>]_vars

\* C3 witness: the source is white space only, the empty-input error is
\* shown and no request was ever issued.
C3_Witness ==
    /\ editorValue # <<>> /\ IsBlank(editorValue)
    /\ errorPanelDisplay = "block"
    /\ errorContent = <<"Please enter some code to compile.">>
    /\ requests = <<>>

\* C4: a call of compile on a source that is not blank hands exactly one
\* request to fetch, whose body holds the source stripped of its surrounding
\* white space and the language "custom"; the steps in which an attempt
\* moves on or ends (also through a failed call) issue no request.
C4_OneRequestPerAttempt ==
    [][/\ (compile /\ ~IsBlank(editorValue))
            => /\ Len(requests') = Len(requests) + 1
               /\ SubSeq(requests', 1, Len(requests)) = requests
               /\ requests'[Len(requests')].method = "POST"
               /\ requests'[Len(requests')].body
                      = [source |-> Stripped(editorValue), language |-> "custom"]
       /\ (\E i \in Attempts : pc[i] # "unstarted" /\ pc'[i] # pc[i])
            => requests' = requests
       /\ Len(requests') = Cardinality({i \in Attempts : pc'[i] # "unstarted"})]_vars

\* C4 witness: one attempt was made on the padded source, its call failed
\* (fetch rejected), and the one request it issued is the only one.
C4_Witness ==
    /\ Len(requests) = 1
    /\ requests[1].body = [source |-> <<"y", " ", "z">>, language |-> "custom"]
    /\ pc[1] = "returned"
    /\ errorPanelDisplay = "block"
    /\ Head(errorContent) \in {"Network error: ", "Connection error: "}
    /\ errorContent[2] = "Failed to fetch"

\* C5: all markers of the tracked list were created by one single attempt,
\* so the list never holds more than one line highlight and one point
\* highlight.
C5_MarkersOfOneAttempt ==
    /\ \A a, b \in 1..Len(errorMarkers) : errorMarkers[a].by = errorMarkers[b].by
    /\ Len(errorMarkers) <= 2

\* C6: a decoded body with a non-empty error string is handled as a failure
\* whatever result and bytecode it carries: the error panel shows the error
\* string itself and the result and bytecode surfaces show the
\* compilation-failed placeholders.
C6_ErrorFieldTakesPrecedence ==
    [][\A i \in Attempts : \A body \in Bodies :
          (IsErrorBody(body) /\ JsonSettle(i, body))
              => /\ errorPanelDisplay' = "block"
                 /\ errorContent' = body.data.error.v
                 /\ resultOutput' = <<"Compilation failed. Check the error below.">>
                 /\ bytecodeOutput' = <<"No bytecode generated due to compilation error.">>]_vars

\* C6 witness: the error of the body that also carries a result and a
\* bytecode is shown, with the two placeholders.
C6_Witness ==
    /\ errorPanelDisplay = "block"
    /\ errorContent = ErrorAt25
    /\ resultOutput = <<"Compilation failed. Check the error below.">>
    /\ bytecodeOutput = <<"No bytecode generated due to compilation error.">>
    /\ \E i \in Attempts : pc[i] = "returned"

\* C7: after a Success response whose result is a number (0 included) or a
\* string, the result surface shows that value.
C7_PresentResultShown ==
    [][\A i \in Attempts : \A body \in Bodies :
          (/\ IsSuccessBody(body)
           /\ body.data.result.t \in {"number", "string"}
           /\ JsonSettle(i, body))
              => resultOutput' = ResultTemplate(JsToString(body.data.result))]_vars

\* C8: when fetch rejects or the body cannot be decoded the attempt ends in
\* the catch block: the error panel shows the transport error, the result
\* and bytecode surfaces show the connection placeholders, no marker is
\* added and no request is issued again.
C8_TransportErrorHandled ==
    [][\A i \in Attempts :
          (FetchReject(i) \/ JsonSettle(i, Undecodable))
              => /\ pc'[i] = "returned"
                 /\ errorPanelDisplay' = "block"
                 /\ Head(errorContent') = IF page = "editor" THEN "Network error: "
                                          ELSE "Connection error: "
                 /\ errorContent'[2] \in {"Failed to fetch",
                                          "Unexpected token < in JSON at position 0"}
                 /\ resultOutput' = IF page = "editor"
                                    THEN <<"Failed to connect to the server.">>
                                    ELSE <<"Failed to connect to compiler server.">>
                 /\ bytecodeOutput' = IF page = "editor"
                                      THEN <<"Connection error.">>
                                      ELSE <<"Server connection unavailable.">>
                 /\ errorMarkers' = errorMarkers
                 /\ requests' = requests]_vars

\* C8 witness: an attempt ended on an undecodable body on the editor page.
C8_Witness ==
    /\ \E i \in Attempts : pc[i] = "returned"
    /\ errorPanelDisplay = "block"
    /\ errorContent = <<"Network error: ", "Unexpected token < in JSON at position 0">>
    /\ resultOutput = <<"Failed to connect to the server.">>
    /\ bytecodeOutput = <<"Connection error.">>

\* C9: on the editor page, showing a Failure whose error text holds a
\* location "at L:C" appends exactly two markers to the tracked list, a line
\* highlight of line L-1 and a point highlight at (L-1, C-1); showing a
\* Failure without location appends none; and a call of compile on a source
\* that is not blank leaves the tracked list empty.
C9_MarkersAppendedAndCleared ==
    [][page = "editor" =>
         /\ \A i \in Attempts : \A body \in Bodies :
              (IsErrorBody(body) /\ JsonSettle(i, body))
                 => LET e == body.data.error.v
                    IN  IF Locations(e) # {}
                        THEN errorMarkers' = errorMarkers \o
                               << [kind |-> "lineClass",
                                   line |-> StatedLine(e) - 1, by |-> i],
                                  [kind |-> "textMarker",
                                   from |-> [line |-> StatedLine(e) - 1,
                                             ch |-> StatedColumn(e) - 1],
                                   to |-> [line |-> StatedLine(e) - 1,
                                           ch |-> StatedColumn(e)],
                                   by |-> i] >>
                        ELSE errorMarkers' = errorMarkers
         /\ (compile /\ ~IsBlank(editorValue)) => errorMarkers' = <<>>]_vars

\* C9 witness: the Failure "E at 3:7" was shown after an earlier Failure's
\* markers had been cleared by the next attempt: the list holds the two
\* markers of line 2, column 6, made by the second attempt.
C9_Witness ==
    /\ Len(errorMarkers) = 2
    /\ errorMarkers[1] = [kind |-> "lineClass", line |-> 2, by |-> 2]
    /\ errorMarkers[2].kind = "textMarker"
    /\ errorMarkers[2].from = [line |-> 2, ch |-> 6]
    /\ errorMarkers[2].by = 2
    /\ pc[1] = "returned" /\ pc[2] = "returned"
    /\ errorContent = ErrorAt37

-----------------------------------------------------------------------------
(* Properties of the diagnostic parser *)

\* C10: for an error text that holds "at L:C" with decimal numbers L and C
\* (the leftmost such place, the digits taken as far as they go) the parser
\* returns line L-1 and column C-1, and the markers are made there; for a
\* text that holds no such place it returns absent and no marker is made.
\* "Parse error at 3:7" gives line 2, column 6; "Unexpected end of input"
\* gives absent.
C10_LocateZeroBased ==
    errorPanelDisplay = "block" =>
        LET e == errorContent
        IN  /\ Locations(e) # {} =>
                /\ Locate(e) = [found |-> TRUE, line |-> StatedLine(e) - 1,
                                col |-> [nan |-> FALSE, v |-> StatedColumn(e) - 1]]
                /\ Len(errorMarkers) = 2
                /\ errorMarkers[1].line = StatedLine(e) - 1
                /\ errorMarkers[2].from
                       = [line |-> StatedLine(e) - 1, ch |-> StatedColumn(e) - 1]
            /\ Locations(e) = {} =>
                /\ Locate(e) = [found |-> FALSE]
                /\ errorMarkers = <<>>
            /\ e = ParseErrorAt37 =>
                /\ Locate(e).found
                /\ Locate(e).line = 2
                /\ Locate(e).col = [nan |-> FALSE, v |-> 6]
            /\ e = UnexpectedEndOfInput => ~Locate(e).found

\* C10 witness: "Parse error at 3:7" was shown and its markers sit at line
\* 2, column 6.
C10_Witness ==
    /\ errorPanelDisplay = "block"
    /\ errorContent = ParseErrorAt37
    /\ Len(errorMarkers) = 2
    /\ errorMarkers[1].line = 2
    /\ errorMarkers[2].from = [line |-> 2, ch |-> 6]

\* The places <<p, n>> where the text reads "at ", n digits, ":" and then
\* no digit: a line with a column that is no number.
LineOnlyPlaces(s) ==
    {o \in (1..Len(s)) \X (1..Len(s)) :
        /\ o[1] + 3 + o[2] <= Len(s)
        /\ s[o[1]] = "a" /\ s[o[1] + 1] = "t" /\ s[o[1] + 2] = " "
        /\ \A k \in (o[1] + 3)..(o[1] + 2 + o[2]) : IsDigit(s[k])
        /\ s[o[1] + 3 + o[2]] = ":"
        /\ (o[1] + 4 + o[2] <= Len(s) => ~IsDigit(s[o[1] + 4 + o[2]]))}

\* The line the leftmost such place states.
LineOnlyStated(s) ==
    LET o == CHOOSE a \in LineOnlyPlaces(s) :
                 \A b \in LineOnlyPlaces(s) : a[1] <= b[1]
    IN  Spelled(s, o[1] + 3, o[1] + 2 + o[2])

\* C11: for an error text that holds "at L:" followed by something that is
\* no number (and holds no complete "at L:C" anywhere) the parser returns
\* line L-1 with the column absent, and the line highlight alone is made.
C11_LineKeptWithoutColumn ==
    errorPanelDisplay = "block" =>
        LET e == errorContent
        IN  (Locations(e) = {} /\ LineOnlyPlaces(e) # {}) =>
                /\ Locate(e).found
                /\ Locate(e).line = LineOnlyStated(e) - 1
                /\ Locate(e).col.nan
                /\ errorMarkers = << [kind |-> "lineClass",
                                      line |-> LineOnlyStated(e) - 1,
                                      by |-> 1] >>

-----------------------------------------------------------------------------
(* Vocabulary of the bytecode listing: the lines and the tokens read off   *)
(* the text the program puts on the bytecode surface.                      *)

RECURSIVE DivBlocks(_, _)
\* The pieces of h from position i on, each running up to and including a
\* "</div>"; what follows the last "</div>" is no piece.
DivBlocks(h, i) ==
    LET e == IndexOfFrom(h, i, "</div>")
    IN  IF e > Len(h) THEN <<>>
        ELSE <<SubSeq(h, i, e)>> \o DivBlocks(h, e + 1)

\* The piece is one line of the listing: a bytecode-line division that
\* starts with a bytecode-index span.
IsListedLine(b) ==
    /\ Len(b) >= 15
    /\ SubSeq(b, 1, 5) = <<"<div class=", Quote, "bytecode-line", Quote, ">">>
    /\ SubSeq(b, 7, 11) = <<"<span class=", Quote, "bytecode-index", Quote, ">">>
    /\ IndexOfFrom(b, 12, "</span>") > 12

\* The index the line carries and what follows it, without the white space
\* of the template around it.
BlockIndex(b) == SubSeq(b, 12, IndexOfFrom(b, 12, "</span>") - 1)

BlockText(b) == SubSeq(b, IndexOfFrom(b, 12, "</span>") + 2, Len(b) - 2)

RECURSIVE Annotated(_, _, _)
\* The characters of h that are no span tag, each with the spans it lies in
\* (outermost first; a span is known by its class and the place of its tag).
Annotated(h, i, open) ==
    IF i > Len(h) THEN <<>>
    ELSE IF h[i] = "<span class="
    THEN Annotated(h, i + 5, Append(open, [cls |-> h[i + 2], at |-> i]))
    ELSE IF h[i] = "</span>"
    THEN Annotated(h, i + 1, SubSeq(open, 1, Len(open) - 1))
    ELSE <<[ch |-> h[i], in |-> open]>> \o Annotated(h, i + 1, open)

\* The text of the tokens, one after the other.
TokenText(h) ==
    LET a == Annotated(h, 1, <<>>) IN [k \in 1..Len(a) |-> a[k].ch]

\* The spans of h.
SpansOf(h) ==
    LET a == Annotated(h, 1, <<>>)
    IN  UNION {{a[k].in[j] : j \in 1..Len(a[k].in)} : k \in 1..Len(a)}

\* The places of the token text that lie in span o, and the text there.
SpanPlaces(h, o) ==
    LET a == Annotated(h, 1, <<>>)
    IN  {k \in 1..Len(a) : \E j \in 1..Len(a[k].in) : a[k].in[j] = o}

SpanText(h, o) ==
    LET a == Annotated(h, 1, <<>>)
        Inside(x) == \E j \in 1..Len(x.in) : x.in[j] = o
        in == SelectSeq(a, Inside)
    IN  [k \in 1..Len(in) |-> in[k].ch]

\* h holds a token of the kind tagged by class cls whose text is t.
HasToken(h, cls, t) ==
    \E o \in SpansOf(h) : o.cls = cls /\ SpanText(h, o) = t

IsDecimal(s) == s # <<>> /\ \A k \in 1..Len(s) : IsDigit(s[k])

RECURSIVE SplitLines(_, _)
\* The pieces of s from position i on that the line feeds separate.
SplitLines(s, i) ==
    LET e == IndexOfFrom(s, i, "\n")
    IN  IF e > Len(s) THEN <<SubSeq(s, i, Len(s))>>
        ELSE <<SubSeq(s, i, e - 1)>> \o SplitLines(s, e + 1)

\* The surface shows the placeholder of an empty listing.
ShowsNoBytecode(out) ==
    out \in {<<"No bytecode generated">>, <<"<em>No bytecode generated</em>">>}

\* The surface shows one line per entry, in order, each with its 0-based
\* position as index and the entry's own text.
ListedWithIndex(out, entries) ==
    LET b == DivBlocks(out, 1)
    IN  /\ Len(b) = Len(entries)
        /\ Len(out) > 0 /\ out[Len(out)] = "</div>"
        /\ \A k \in 1..Len(b) :
              /\ IsListedLine(b[k])
              /\ IsDecimal(BlockIndex(b[k]))
              /\ Spelled(BlockIndex(b[k]), 1, Len(BlockIndex(b[k]))) = k - 1
              /\ TokenText(BlockText(b[k])) = entries[k]

\* The bytecode of the body is missing or has no entry.
NoEntries(body) ==
    body.data.bytecode.t = "undefined" \/ body.data.bytecode.v = <<>>

-----------------------------------------------------------------------------
(* Properties of the bytecode listing *)

-----------------------------------------------------------------------------
(* Further properties of the compile session *)

\* C13: whenever an attempt has just ended with a Success response shown,
\* the tracked marker list is empty, whatever triggers and responses came
\* before.
C13_NoMarkerAfterSuccess ==
    [][\A i \in Attempts : \A body \in Bodies :
          (IsSuccessBody(body) /\ pc'[i] # pc[i] /\ JsonSettle(i, body))
              => errorMarkers' = <<>>]_vars

\* C14: a call of compile on a source that is empty or white space only
\* leaves the state of every attempt, the compile button and the spinner,
\* the tracked marker list, the requests and the result and bytecode
\* surfaces as they were; only the error panel changes.
C14_BlankTriggerFrame ==
    [][(compile /\ IsBlank(editorValue))
          => UNCHANGED <<pc, compileBtnDisabled, spinnerDisplay, errorMarkers,
                         requests, resultOutput, bytecodeOutput,
                         editorValue>>]_vars

\* C14 witness: compile was called on a blank source while the markers and
\* the placeholders of an earlier Failure were on the page: the empty-input
\* error is shown and they are all still there.
C14_Witness ==
    /\ IsBlank(editorValue)
    /\ errorPanelDisplay = "block"
    /\ errorContent = <<"Please enter some code to compile.">>
    /\ Len(errorMarkers) = 2
    /\ resultOutput = <<"Compilation failed. Check the error below.">>
    /\ bytecodeOutput = <<"No bytecode generated due to compilation error.">>
    /\ ~compileBtnDisabled
    /\ \E i \in Attempts : pc[i] = "returned"

-----------------------------------------------------------------------------
(* Properties of the tokenizer *)

\* The one line of the listing that is shown, without index and template.
ListedLine == BlockText(DivBlocks(bytecodeOutput, 1)[1])

\* The attempt has ended and the line is listed.
LineShown == pc[1] = "returned" /\ Len(DivBlocks(bytecodeOutput, 1)) = 1

\* \w: a letter, a digit or the underscore.
IsWordChar(c) ==
    \/ IsDigit(c)
    \/ c \in {"a", "b", "c", "d", "e", "f", "g", "h", "i", "j", "k", "l", "m",
              "n", "o", "p", "q", "r", "s", "t", "u", "v", "w", "x", "y", "z",
              "A", "B", "C", "D", "E", "F", "G", "H", "I", "J", "K", "L", "M",
              "N", "O", "P", "Q", "R", "S", "T", "U", "V", "W", "X", "Y", "Z",
              "_"}

\* The places a..b of text t hold a whole word: no word character sits right
\* before or right after them.
IsWholeWord(t, a, b) ==
    /\ (a > 1 => ~IsWordChar(t[a - 1]))
    /\ (b < Len(t) => ~IsWordChar(t[b + 1]))

\* C15: every token tagged Operator (class bytecode-op) is a whole word of
\* the line: an operator name that is a proper part of a longer word is not
\* tagged.
C15_OperatorWholeWord ==
    LineShown =>
        \A o \in SpansOf(ListedLine) :
            o.cls = "bytecode-op" =>
                LET ps == SpanPlaces(ListedLine, o)
                IN  IsWholeWord(TokenText(ListedLine),
                                CHOOSE a \in ps : \A k \in ps : a <= k,
                                CHOOSE b \in ps : \A k \in ps : b >= k)

\* The classes that tag the kinds NumericLiteral, Operator, JumpTarget,
\* JumpOffset and VariableOp.
OtherKindClasses ==
    {"bytecode-value", "bytecode-op", "bytecode-flow", "bytecode-number",
     "bytecode-var"}

\* The line reads kw, Variable("<name>") with a name that is not empty and
\* holds no quote.
IsVariableInstruction(line, kw) ==
    LET h == Len(kw) + Len(VariableWord) + 2
    IN  /\ Len(line) >= h + 3
        /\ SubSeq(line, 1, h) = kw \o VariableWord \o <<"(", Quote>>
        /\ line[Len(line) - 1] = Quote /\ line[Len(line)] = ")"
        /\ \A k \in (h + 1)..(Len(line) - 2) : line[k] # Quote

QuotedName(line, kw) ==
    SubSeq(line, Len(kw) + Len(VariableWord) + 3, Len(line) - 2)

\* C16: for a line LoadVariable("<name>") or StoreVariable("<name>") the
\* output holds a token tagged VariableOp (class bytecode-var) whose text is
\* the keyword, and a token tagged as a variable name (a span of a class of
\* its own) whose text is <name>.
C16_VariableOpAndName ==
    LineShown =>
        \A kw \in {LoadWord, StoreWord} :
            IsVariableInstruction(instructionLine, kw) =>
                /\ HasToken(ListedLine, "bytecode-var", kw \o VariableWord)
                /\ \E o \in SpansOf(ListedLine) :
                      /\ o.cls \notin OtherKindClasses
                      /\ SpanText(ListedLine, o) = QuotedName(instructionLine, kw)

\* The line reads Push(<value>) with a value that is not empty and holds no
\* closing parenthesis.
IsPushInstruction(line) ==
    /\ Len(line) >= 7
    /\ SubSeq(line, 1, 5) = <<"P", "u", "s", "h", "(">>
    /\ line[Len(line)] = ")"
    /\ \A k \in 6..(Len(line) - 1) : line[k] # ")"

PushedValue(line) == SubSeq(line, 6, Len(line) - 1)

\* C17: for a line Push(<value>) the output holds a token tagged
\* NumericLiteral (class bytecode-value) whose text is exactly <value>;
\* Push(42) gives such a token with text 42.
C17_PushValueTagged ==
    LineShown =>
        /\ IsPushInstruction(instructionLine)
              => HasToken(ListedLine, "bytecode-value",
                          PushedValue(instructionLine))
        /\ instructionLine = <<"P", "u", "s", "h", "(", "4", "2", ")">>
              => HasToken(ListedLine, "bytecode-value", <<"4", "2">>)

\* C17 witness: the line Push(42) is listed with 42 in a bytecode-value
\* span.
C17_Witness ==
    /\ LineShown
    /\ instructionLine = <<"P", "u", "s", "h", "(", "4", "2", ")">>
    /\ ListedLine = <<"P", "u", "s", "h", "(", "<span class=", Quote,
                      "bytecode-value", Quote, ">", "4", "2", "</span>", ")">>

\* The line holds Push(<value>) with a value that is not empty.
HoldsPush(line) ==
    \E p \in 1..Len(line) :
        /\ StartsWith(line, p, <<"P", "u", "s", "h", "(">>)
        /\ p + 5 <= Len(line) /\ line[p + 5] # ")"
        /\ \E q \in (p + 6)..Len(line) : line[q] = ")"

\* The line holds one of the operator names as a whole word.
HoldsOperatorWord(line) ==
    \E w \in {<<"A", "d", "d">>,
              <<"S", "u", "b", "t", "r", "a", "c", "t">>,
              <<"M", "u", "l", "t", "i", "p", "l", "y">>,
              <<"D", "i", "v", "i", "d", "e">>,
              <<"N", "e", "g", "a", "t", "e">>} :
        \E p \in 1..Len(line) :
            StartsWith(line, p, w) /\ IsWholeWord(line, p, p + Len(w) - 1)

\* The line holds Jump(<n>) or JumpIfFalse(<n>) with a decimal number n.
HoldsJump(line) ==
    \E w \in {<<"J", "u", "m", "p", "(">>,
              <<"J", "u", "m", "p", "I", "f", "F", "a", "l", "s", "e", "(">>} :
        \E p \in 1..Len(line) : \E q \in 1..Len(line) :
            /\ StartsWith(line, p, w)
            /\ q > p + Len(w) /\ line[q] = ")"
            /\ \A k \in (p + Len(w))..(q - 1) : IsDigit(line[k])

\* The line holds LoadVariable("<name>") or StoreVariable("<name>") with a
\* name that is not empty.
HoldsVariable(line) ==
    \E w \in {<<"L", "o", "a", "d">>, <<"S", "t", "o", "r", "e">>} :
        \E p \in 1..Len(line) : \E q \in 1..Len(line) :
            /\ StartsWith(line, p, w \o <<"V", "a", "r", "i", "a", "b", "l", "e",
                                          "(", Quote>>)
            /\ q > p + Len(w) + 10 /\ q < Len(line)
            /\ line[q] = Quote /\ line[q + 1] = ")"
            /\ \A k \in (p + Len(w) + 10)..(q - 1) : line[k] # Quote

MatchesNoPattern(line) ==
    ~HoldsPush(line) /\ ~HoldsOperatorWord(line) /\ ~HoldsJump(line)
    /\ ~HoldsVariable(line)

\* C18: the texts of the output tokens, one after the other, are the input
\* line, character for character; and a line that matches none of the four
\* category patterns (Push(<value>), an operator name as a whole word,
\* Jump(<n>)/JumpIfFalse(<n>), LoadVariable("<name>")/StoreVariable("<name>"))
\* comes out without any tag.
C18_ReadOnlyAnnotation ==
    LineShown =>
        /\ TokenText(ListedLine) = instructionLine
        /\ MatchesNoPattern(instructionLine) => SpansOf(ListedLine) = {}

-----------------------------------------------------------------------------
(* Properties of the marker list *)

\* C19: from whatever list of tracked markers the program has reached,
\* clearErrorMarkers leaves the list empty, and called again on what it
\* left, leaves it empty again; every tracked handle is a text marker (it
\* has clear()) or a line handle (removeLineClass takes it), so neither call
\* meets a handle it cannot clear.
C19_ClearTwice ==
    /\ clearErrorMarkers(errorMarkers) = <<>>
    /\ clearErrorMarkers(clearErrorMarkers(errorMarkers)) = <<>>
    /\ \A k \in 1..Len(errorMarkers) :
          errorMarkers[k].kind \in {"textMarker", "lineClass"}

\* C19 witness: the tracked list holds a line handle and a text marker, and
\* clearing it once and twice gives the empty list.
C19_Witness ==
    /\ Len(errorMarkers) >= 2
    /\ errorMarkers[1].kind = "lineClass"
    /\ errorMarkers[2].kind = "textMarker"
    /\ clearErrorMarkers(errorMarkers) = <<>>
    /\ clearErrorMarkers(clearErrorMarkers(errorMarkers)) = <<>>

\* C20: in every state with an attempt whose request has not settled the
\* compile button is disabled, also when attempts overlap and one of them
\* ends before the others.
C20_DisabledWhileInFlight == InFlight # {} => compileBtnDisabled

-----------------------------------------------------------------------------
(* Order of the responses *)

\* C21: the outcome of an earlier request is never put on the page after
\* the outcome of a later one: in the step in which attempt i leaves
\* compile() and its response (or its transport error) is shown, no attempt
\* that was started after i has been shown already.
C21_ResponsesInRequestOrder ==
    [][\A i \in Attempts : \A j \in Attempts :
          (i < j /\ pc[i] # "returned" /\ pc'[i] = "returned")
              => pc[j] # "returned"]_vars

-----------------------------------------------------------------------------
(* Range of the locations *)

\* C22: whenever the parser finds a location in the error text shown, its
\* line is 0 or more and its column, when there is one, is 0 or more, also
\* for a text that reports line 0 or column 0; the positions handed to the
\* editor for the markers are such positions.
C22_LocationNonNegative ==
    (errorPanelDisplay = "block" /\ Locate(errorContent).found) =>
        /\ Locate(errorContent).line >= 0
        /\ ~Locate(errorContent).col.nan => Locate(errorContent).col.v >= 0
        /\ \A k \in 1..Len(errorMarkers) :
              IF errorMarkers[k].kind = "lineClass"
              THEN errorMarkers[k].line >= 0
              ELSE errorMarkers[k].from.line >= 0 /\ errorMarkers[k].from.ch >= 0

-----------------------------------------------------------------------------
(* Independence of the category patterns *)

\* The line reads kw(<n>) with a decimal number n.
IsJumpInstruction(line, kw) ==
    /\ Len(line) >= Len(kw) + 3
    /\ SubSeq(line, 1, Len(kw) + 1) = kw \o <<"(">>
    /\ line[Len(line)] = ")"
    /\ \A k \in (Len(kw) + 2)..(Len(line) - 1) : IsDigit(line[k])

\* C23: what one category pattern matches in the line is tagged whatever
\* the other patterns match there: a line LoadVariable("<name>") or
\* StoreVariable("<name>") has its keyword tagged VariableOp also when the
\* name holds an operator name, a line Push(<value>) has its value tagged
\* NumericLiteral, a line Jump(<n>) or JumpIfFalse(<n>) has its keyword
\* tagged JumpTarget and its number JumpOffset, and every operator name
\* that stands as a whole word in the line is tagged Operator.
C23_PatternsIndependent ==
    LineShown =>
        /\ \A kw \in {LoadWord, StoreWord} :
              IsVariableInstruction(instructionLine, kw)
                 => HasToken(ListedLine, "bytecode-var", kw \o VariableWord)
        /\ IsPushInstruction(instructionLine)
              => HasToken(ListedLine, "bytecode-value",
                          PushedValue(instructionLine))
        /\ \A kw \in {JumpWord, JumpIfFalseWord} :
              IsJumpInstruction(instructionLine, kw)
                 => /\ HasToken(ListedLine, "bytecode-flow", kw)
                    /\ HasToken(ListedLine, "bytecode-number",
                                SubSeq(instructionLine, Len(kw) + 2,
                                       Len(instructionLine) - 1))
        /\ \A n \in 1..Len(OperatorWords) : \A p \in 1..Len(instructionLine) :
              (/\ StartsWith(instructionLine, p, OperatorWords[n])
               /\ IsWholeWord(instructionLine, p, p + Len(OperatorWords[n]) - 1))
                 => \E o \in SpansOf(ListedLine) :
                       /\ o.cls = "bytecode-op"
                       /\ SpanPlaces(ListedLine, o)
                              = p..(p + Len(OperatorWords[n]) - 1)

-----------------------------------------------------------------------------
(* The rotation of the examples *)

\* The examples loaded so far go round all of them: the index is one of the
\* examples', any run of as many loads as there are examples holds each
\* example once, and an example comes again that many loads later and not
\* before.
RotationIsCycle ==
    LET N == Len(examples)
    IN  /\ currentExampleIndex \in 0..(N - 1)
        /\ \A k \in 1..Len(exampleLog) : exampleLog[k] \in 0..(N - 1)
        /\ \A k \in 1..Len(exampleLog) :
              k + N - 1 <= Len(exampleLog)
                 => {exampleLog[j] : j \in k..(k + N - 1)} = 0..(N - 1)
        /\ \A k \in 1..Len(exampleLog) :
              /\ \A d \in 1..(N - 1) :
                    k + d <= Len(exampleLog) => exampleLog[k + d] # exampleLog[k]
              /\ k + N <= Len(exampleLog) => exampleLog[k + N] = exampleLog[k]

\* C24: after any number of clicks on the Examples button the rotation is a
\* cycle over all the examples (see RotationIsCycle); the click puts the
\* code of the example it logs into the editor, and leaves every attempt,
\* the button and the spinner, the requests, the surfaces and the tracked
\* markers as they were.
C24_ExampleRotation ==
    [][/\ RotationIsCycle'
       /\ showNextExample
             => /\ Len(exampleLog') = Len(exampleLog) + 1
                /\ editorValue' = examples[exampleLog'[Len(exampleLog')] + 1].code
                /\ UNCHANGED <<pc, compileBtnDisabled, spinnerDisplay,
                               requests, errorMarkers, errorPanelDisplay,
                               errorContent, resultOutput,
                               bytecodeOutput>>]_vars

\* C24 witness: one more example than there are was loaded while an attempt
\* was pending and the markers of a Failure were tracked: the fifth load is
\* the first again, and the attempt and the markers are still there.
C24_Witness ==
    /\ Len(exampleLog) = Len(examples) + 1
    /\ exampleLog[Len(examples) + 1] = exampleLog[1]
    /\ editorValue = examples[exampleLog[1] + 1].code
    /\ Len(errorMarkers) = 2
    /\ InFlight # {}

====
